---- MODULE Spec2Model ----
(***************************************************************************)
(* Release-notes bot: changelog_bot.py (checkpoint, tracker fetch,         *)
(* classifier, grouper, drafter, chat delivery, main) and the entry point  *)
(* of customer_release_notes.py, as a state machine.                       *)
(*                                                                         *)
(* Text of an inference reply is a sequence of tokens.  A token is one     *)
(* character of interest ("[", "]", ",", "{", "}"), a stretch of prose     *)
(* that holds none of them ("p"), or a whole JSON object literal ("obj")   *)
(* whose first character is "{" and whose last character is "}".           *)
(* Whitespace is not modelled: json.loads and str.strip ignore it.         *)
(***************************************************************************)
EXTENDS Integers, Sequences, FiniteSets, TLC

VARIABLES
    pc,          \* position of the running entry point / harness
    entry,       \* "bot" (changelog_bot.main), "crn" (customer_release_notes.main), "fn"
    runNo,       \* number of the run in progress (or last started)
    now,         \* wall clock, in ticks; TicksPerDay ticks make a day
    tracker,     \* issue tracker: ticket id -> tick of last update, -1 = not completed
    checkpoint,  \* STATE_FILE: [exists, last_run]
    override,    \* START_DATE / since_date: [some, date]
    since,       \* the query boundary of the run (a day)
    issues,      \* tickets fetched by the run
    categorized, \* result of filter_customer_worthy
    grouped,     \* result of group_related_tickets
    notes,       \* result of draft_release_notes
    prompt,      \* the sections of the drafting prompt last built
    calls,       \* outbound calls of the run: [tracker, classify, group, draft, slack]
    exc,         \* exception that escaped, "none" when none did
    warned,      \* whether a parse warning was printed
    sent,        \* the delivery: [webhook (its outcome, "none" before), value (returned)]
    hist,        \* what the previous completed run fetched, and when it ran
    personal,    \* the customer flow: the customer asked for, what was found
    comments,    \* harness: the comments handed to get_comments, and what it kept
    reply,       \* harness: the reply text handed to the stage under call, in parts
    parsed       \* harness: what the two-tier parse made of that reply

vars == <<pc, entry, runNo, now, tracker, checkpoint, override, since, issues,
          categorized, grouped, notes, prompt, calls, exc, warned, sent,
          hist, personal, comments, reply, parsed>>

----------------------------------------------------------------------------
(* Bounds of the model *)

NumTickets == 2      \* tickets known to the tracker
MaxDecisions == 2    \* decisions in a classification reply
MaxRefs == 2         \* ticket ids a group of a grouping reply lists
MaxRuns == 2         \* runs of an entry point
MaxTick == 2         \* ticks the clock runs for
TicksPerDay == 2     \* ticks in a day
MaxComments == 6      \* comments on a ticket

(* Program constants *)

DefaultWindowDays == 7     \* timedelta(days=7)
FetchLimit == 100          \* first: 100
MaxCommentsRead == 5    \* comments[:5]
BodyChars == 300       \* body[:300]
max_chars == 800       \* get_comments(issue, max_chars=800)

----------------------------------------------------------------------------
(* Values *)

Absent == "<absent>"

TicketIds == 1..NumTickets
UnknownId == NumTickets + 1

\* A JSON object literal of a reply.  id = 0: no "id" key; Absent: no such key.
EmptyObj ==
    [id |-> 0, decision |-> Absent, reason |-> Absent,
     hasGroups |-> FALSE, groups |-> <<>>,
     hasUngrouped |-> FALSE, ungrouped |-> <<>>]

NumKeys(o) ==
    (IF o.id # 0 THEN 1 ELSE 0) + (IF o.decision # Absent THEN 1 ELSE 0)
    + (IF o.reason # Absent THEN 1 ELSE 0) + (IF o.hasGroups THEN 1 ELSE 0)
    + (IF o.hasUngrouped THEN 1 ELSE 0)

Ch(c) == [ch |-> c, obj |-> EmptyObj]
ObjTok(o) == [ch |-> "obj", obj |-> o]

\* A decoded JSON value: a list of values or a dict.
NoVal == [kind |-> "none", items |-> <<>>, obj |-> EmptyObj]
ListVal(items) == [kind |-> "list", items |-> items, obj |-> EmptyObj]
DictVal(o) == [kind |-> "dict", items |-> <<>>, obj |-> o]

\* A ticket as the pipeline holds it (kind "dict"), or a bare id string (kind "str").
Ticket(i) == [kind |-> "dict", id |-> i, title |-> "Ticket", reason |-> Absent]
Placeholder(i) == [kind |-> "dict", id |-> i, title |-> "Unknown", reason |-> Absent]
BareId(i) == [kind |-> "str", id |-> i, title |-> Absent, reason |-> Absent]

----------------------------------------------------------------------------
(* json.loads on a token sequence *)

ParseFail == [ok |-> FALSE, val |-> NoVal, next |-> 0]

RECURSIVE ParseValue(_, _), ParseElements(_, _, _)
\* the value that starts at token i
ParseValue(toks, i) ==
    IF i > Len(toks) THEN ParseFail
    ELSE IF toks[i].ch = "obj"
        THEN [ok |-> TRUE, val |-> DictVal(toks[i].obj), next |-> i + 1]
    ELSE IF toks[i].ch = "{"
        THEN IF i + 1 <= Len(toks) /\ toks[i + 1].ch = "}"
             THEN [ok |-> TRUE, val |-> DictVal(EmptyObj), next |-> i + 2]
             ELSE ParseFail
    ELSE IF toks[i].ch = "["
        THEN IF i + 1 <= Len(toks) /\ toks[i + 1].ch = "]"
             THEN [ok |-> TRUE, val |-> ListVal(<<>>), next |-> i + 2]
             ELSE ParseElements(toks, i + 1, <<>>)
    ELSE ParseFail

\* the elements of an array from token i on, acc holding those before
ParseElements(toks, i, acc) ==
    LET v == ParseValue(toks, i) IN
    IF ~v.ok \/ v.next > Len(toks) THEN ParseFail
    ELSE IF toks[v.next].ch = "]"
        THEN [ok |-> TRUE, val |-> ListVal(Append(acc, v.val)), next |-> v.next + 1]
    ELSE IF toks[v.next].ch = ","
        THEN ParseElements(toks, v.next + 1, Append(acc, v.val))
    ELSE ParseFail

\* json.loads: the whole text must be one value, else JSONDecodeError (ok = FALSE)
json_loads(toks) ==
    LET r == ParseValue(toks, 1) IN
    IF r.ok /\ r.next = Len(toks) + 1
    THEN [ok |-> TRUE, val |-> r.val]
    ELSE [ok |-> FALSE, val |-> NoVal]

----------------------------------------------------------------------------
(* re.search with a greedy pattern: from the first opener to the last closer *)

Positions(toks, chars) == {k \in 1..Len(toks) : toks[k].ch \in chars}

SetMin(S) == CHOOSE x \in S : \A y \in S : x <= y
SetMax(S) == CHOOSE x \in S : \A y \in S : x >= y

\* the match of  opener [\s\S]* closer  in toks; found = FALSE when there is none
GreedySearch(toks, openers, closers) ==
    LET os == Positions(toks, openers)
        cs == Positions(toks, closers)
    IN  IF os = {} \/ cs = {} \/ SetMin(os) > SetMax(cs)
        THEN [found |-> FALSE, text |-> <<>>]
        ELSE [found |-> TRUE, text |-> SubSeq(toks, SetMin(os), SetMax(cs))]

\* re.search(r'\[[\s\S]*\]', text)
search_array(toks) == GreedySearch(toks, {"["}, {"]"})

\* re.search(r'\{[\s\S]*\}', text): an object literal opens and closes a brace
search_object(toks) == GreedySearch(toks, {"{", "obj"}, {"}", "obj"})

----------------------------------------------------------------------------
(* filter_customer_worthy *)

\* the default taken for a ticket without a decision, were it "feature"
DefaultDecision_feature == "feature"

DefaultDecision == "exclude"
DefaultReason == "No reason given"

\* the two-tier parse of a reply: direct decode, then the bracket match
\* (opener/closer pair given by `search`); ok = FALSE when both tiers fail
TwoTier(toks, m) ==
    LET direct == json_loads(toks) IN
    IF direct.ok THEN [ok |-> TRUE, val |-> direct.val, tier |-> 1]
    ELSE IF ~m.found THEN [ok |-> FALSE, val |-> NoVal, tier |-> 0]
    ELSE LET second == json_loads(m.text) IN
         IF second.ok THEN [ok |-> TRUE, val |-> second.val, tier |-> 2]
         ELSE [ok |-> FALSE, val |-> NoVal, tier |-> 0]

\* what is kept of a parse: the stage it belongs to, and its outcome
Observed(stage, p) == [of |-> stage, ok |-> p.ok, val |-> p.val, tier |-> p.tier]
NotObserved == Observed("none", [ok |-> FALSE, val |-> NoVal, tier |-> 0])

parse_decisions(toks) == TwoTier(toks, search_array(toks))

\* {d['id']: d for d in decisions}: the exception it raises, "none" when none.
\* Iterating a dict yields its keys (strings), and indexing a string or a list
\* with 'id' is a TypeError; a dict without the key is a KeyError.
decision_map_error(val) ==
    IF val.kind = "dict"
    THEN IF NumKeys(val.obj) > 0 THEN "TypeError" ELSE "none"
    ELSE LET bad == {k \in 1..Len(val.items) :
                        val.items[k].kind # "dict" \/ val.items[k].obj.id = 0}
         IN  IF bad = {} THEN "none"
             ELSE IF val.items[SetMin(bad)].kind # "dict" THEN "TypeError"
             ELSE "KeyError"

\* a ticket without a decision takes the last decision of the reply
decision_map_get_lastWhenMissing(val, id) ==
    LET hits == IF val.kind = "dict" THEN {}
                ELSE {k \in 1..Len(val.items) : val.items[k].obj.id = id}
    IN  IF hits # {} THEN val.items[SetMax(hits)].obj
        ELSE IF val.kind = "list" /\ val.items # <<>>
        THEN val.items[Len(val.items)].obj
        ELSE EmptyObj

\* decision_map.get(issue['id'], {}): the last decision given for the id wins
decision_map_get(val, id) ==
    LET hits == IF val.kind = "dict" THEN {}
                ELSE {k \in 1..Len(val.items) : val.items[k].obj.id = id}
    IN  IF hits = {} THEN EmptyObj ELSE val.items[SetMax(hits)].obj

decision_of(d) == IF d.decision = Absent THEN DefaultDecision ELSE d.decision
reason_of(d) == IF d.reason = Absent THEN DefaultReason ELSE d.reason

\* a second `if` where the code has `elif`: a feature also falls to the else
Buckets_ifNotElif(decision) ==
    IF decision = "feature" THEN {"features", "excluded"}
    ELSE IF decision = "fix" THEN {"fixes"}
    ELSE {"excluded"}

\* the partitions a ticket with this decision is appended to
Buckets(decision) ==
    IF decision = "feature" THEN {"features"}
    ELSE IF decision = "fix" THEN {"fixes"}
    ELSE {"excluded"}

\* the loop over the issues: the tickets appended to partition `which`, in order
partition_of(iss, val, which) ==
    LET tagged == [k \in 1..Len(iss) |->
                     LET d == decision_map_get(val, iss[k].id) IN
                     [t |-> [iss[k] EXCEPT !.reason = reason_of(d)],
                      into |-> Buckets(decision_of(d))]]
        picked == SelectSeq(tagged, LAMBDA x : which \in x.into)
    IN  [k \in 1..Len(picked) |-> picked[k].t]

\* what a stage function hands back: the exception that escaped it (or "none"),
\* whether it called the inference service, whether it printed a warning, and
\* its return value
EmptyCategorized(shape) ==
    [shape |-> shape, features |-> <<>>, fixes |-> <<>>, excluded |-> <<>>]

\* a reply of the inference service: the call fails (up = FALSE), or gives text
Svc(up, toks) == [up |-> up, text |-> toks]
ServiceDown == Svc(FALSE, <<>>)

\* the value returned for [], before any call
empty_input_result ==
    [exc |-> "none", called |-> FALSE, warned |-> FALSE,
     value |-> EmptyCategorized("list")]

\* a reply neither tier decodes, were the JSONDecodeError left to escape
unparsed_result_raises ==
    [exc |-> "JSONDecodeError", called |-> TRUE, warned |-> FALSE,
     value |-> EmptyCategorized("none")]

\* the value returned, after a warning, for a reply neither tier decodes
unparsed_result ==
    [exc |-> "none", called |-> TRUE, warned |-> TRUE,
     value |-> EmptyCategorized("dict")]

\* The returned dict also carries the raw "decisions" list, which no caller
\* reads; it is left out of the value.  client.messages.create is not guarded:
\* a failed call escapes as its exception.
filter_customer_worthy(iss, svc) ==
    IF iss = <<>> THEN empty_input_result
    ELSE IF ~svc.up
    THEN [exc |-> "APIError", called |-> TRUE, warned |-> FALSE,
          value |-> EmptyCategorized("none")]
    ELSE LET p == parse_decisions(svc.text) IN
         IF ~p.ok THEN unparsed_result
         ELSE IF decision_map_error(p.val) # "none"
         THEN [exc |-> decision_map_error(p.val), called |-> TRUE, warned |-> FALSE,
               value |-> EmptyCategorized("none")]
         ELSE [exc |-> "none", called |-> TRUE, warned |-> FALSE,
               value |-> [shape |-> "dict",
                          features |-> partition_of(iss, p.val, "features"),
                          fixes |-> partition_of(iss, p.val, "fixes"),
                          excluded |-> partition_of(iss, p.val, "excluded")]]

----------------------------------------------------------------------------
(* group_related_tickets *)

ReasonBackend == "Internal API refactor"
ReasonVisible == "Visible in the UI"

\* any(keyword in reason.lower() for keyword in ['backend', 'endpoint', 'api',
\* 'schema']), over the reasons the model draws
keyword_hit(reason) == reason \in {ReasonBackend}

potential_backend(excluded) == SelectSeq(excluded, LAMBDA e : keyword_hit(e.reason))

all_tickets(cat) == cat.features \o cat.fixes \o potential_backend(cat.excluded)

\* all_by_id.get(tid, {"id": tid, "title": "Unknown"}); in the dict the last
\* ticket with an id wins
resolve(all, tid) ==
    LET hits == {k \in 1..Len(all) : all[k].id = tid}
    IN  IF hits = {} THEN Placeholder(tid) ELSE all[SetMax(hits)]

\* unknown ids skipped instead of replaced by a placeholder
resolve_all_skipUnknown(all, ids) ==
    LET known == SelectSeq(ids, LAMBDA i : \E k \in 1..Len(all) : all[k].id = i)
    IN  [k \in 1..Len(known) |-> resolve(all, known[k])]

resolve_all(all, ids) == [k \in 1..Len(ids) |-> resolve(all, ids[k])]

parse_grouping(toks) == TwoTier(toks, search_object(toks))

\* the fallback of a reply neither tier decodes: the ids of the fixes, as strings
fallback_grouping(cat) ==
    [groups |-> <<>>,
     ungrouped_fixes |-> [k \in 1..Len(cat.fixes) |-> BareId(cat.fixes[k].id)]]

EmptyGrouped == [groups |-> <<>>, ungrouped_fixes |-> <<>>]

enrich(all, g) ==
    [name |-> g.name,
     summary |-> IF g.summary = Absent THEN "" ELSE g.summary,
     tickets |-> resolve_all(all, g.tickets)]

\* the enrichment of a decoded result: result.get on a list is an
\* AttributeError, group["name"] on a group without it a KeyError
enrich_error(val) ==
    IF val.kind # "dict" THEN "AttributeError"
    ELSE IF \E k \in 1..Len(val.obj.groups) : val.obj.groups[k].name = Absent
    THEN "KeyError"
    ELSE "none"

group_related_tickets(cat, svc) ==
    IF cat.shape # "dict"
    THEN [exc |-> "AttributeError", called |-> FALSE, value |-> EmptyGrouped]
    ELSE IF cat.features = <<>> /\ cat.fixes = <<>>
    THEN [exc |-> "none", called |-> FALSE, value |-> EmptyGrouped]
    ELSE IF ~svc.up
    THEN [exc |-> "APIError", called |-> TRUE, value |-> EmptyGrouped]
    ELSE LET p == parse_grouping(svc.text)
             all == all_tickets(cat)
         IN  IF ~p.ok
             THEN [exc |-> "none", called |-> TRUE, value |-> fallback_grouping(cat)]
             ELSE IF enrich_error(p.val) # "none"
             THEN [exc |-> enrich_error(p.val), called |-> TRUE, value |-> EmptyGrouped]
             ELSE [exc |-> "none", called |-> TRUE,
                   value |-> [groups |-> [k \in 1..Len(p.val.obj.groups) |->
                                            enrich(all, p.val.obj.groups[k])],
                              ungrouped_fixes |->
                                  resolve_all(all, p.val.obj.ungrouped)]]

----------------------------------------------------------------------------
(* draft_release_notes *)

DraftText == "release notes"
EmptyPrompt == [groups |-> <<>>, features |-> <<>>, fixes |-> <<>>]

\* t['title'] on a string is a TypeError
format_error(tickets) ==
    IF \E k \in 1..Len(tickets) : tickets[k].kind # "dict" THEN "TypeError" ELSE "none"

\* the sections of the prompt: the groups rendered, the features rendered one by
\* one, and the tickets under BUG FIX / QOL TICKETS
features_section(cat, grp) == IF grp.groups # <<>> THEN <<>> ELSE cat.features

\* every fix rendered, whatever the grouper left ungrouped
fixes_section_allFixes(cat, grp) == cat.fixes

fixes_section(cat, grp) ==
    IF grp.ungrouped_fixes # <<>> THEN grp.ungrouped_fixes ELSE cat.fixes

draft_release_notes(cat, grp, up) ==
    IF cat.shape # "dict"
    THEN [exc |-> "AttributeError", called |-> FALSE, value |-> "", prompt |-> EmptyPrompt]
    ELSE IF cat.features = <<>> /\ cat.fixes = <<>>
    THEN [exc |-> "none", called |-> FALSE, value |-> "", prompt |-> EmptyPrompt]
    ELSE IF \E k \in 1..Len(grp.groups) : format_error(grp.groups[k].tickets) # "none"
    THEN [exc |-> "TypeError", called |-> FALSE, value |-> "", prompt |-> EmptyPrompt]
    ELSE IF format_error(fixes_section(cat, grp)) # "none"
    THEN [exc |-> "TypeError", called |-> FALSE, value |-> "", prompt |-> EmptyPrompt]
    ELSE IF ~up
    THEN [exc |-> "APIError", called |-> TRUE, value |-> "", prompt |-> EmptyPrompt]
    ELSE [exc |-> "none", called |-> TRUE, value |-> DraftText,
          prompt |-> [groups |-> grp.groups,
                      features |-> features_section(cat, grp),
                      fixes |-> fixes_section(cat, grp)]]

----------------------------------------------------------------------------
(* The inputs: replies of the inference service, ticket lists *)

SeqsUpTo(S, n) == UNION {[1..k -> S] : k \in 0..n}

DecisionObj(i, dec, rsn) == [EmptyObj EXCEPT !.id = i, !.decision = dec, !.reason = rsn]

\* per id: a feature, a fix, an exclusion for backend work, an object with the
\* id alone; and one decision that lacks its id
DecisionObjects ==
    UNION {{DecisionObj(i, "feature", ReasonVisible),
            DecisionObj(i, "fix", ReasonVisible),
            DecisionObj(i, "exclude", ReasonBackend),
            DecisionObj(i, Absent, Absent)} : i \in TicketIds \cup {UnknownId}}
    \cup {DecisionObj(0, "feature", ReasonVisible)}

DecisionLists == SeqsUpTo(DecisionObjects, MaxDecisions)

\* the text of a JSON array of object literals
RenderArray(objs) ==
    <<Ch("[")>>
    \o [k \in 1..(IF objs = <<>> THEN 0 ELSE 2 * Len(objs) - 1) |->
            IF k % 2 = 1 THEN ObjTok(objs[(k + 1) \div 2]) ELSE Ch(",")]
    \o <<Ch("]")>>

\* the value json.loads gives for that text
ArrayVal(objs) == ListVal([k \in 1..Len(objs) |-> DictVal(objs[k])])

\* prose around the payload: nothing, or one token before or after it
Prose(chars) == {<<>>} \cup {<<Ch(c)>> : c \in chars}
Wraps(chars) ==
    {[pre |-> a, post |-> b] : a \in Prose(chars), b \in {<<>>}}
    \cup {[pre |-> a, post |-> b] : a \in {<<>>}, b \in Prose(chars)}
Reply(w, body) == [pre |-> w.pre, body |-> body, post |-> w.post]

TextOf(r) == r.pre \o r.body \o r.post
NoReply == [pre |-> <<>>, body |-> <<>>, post |-> <<>>]

\* classification replies: an array of decisions, a bare object, an array
\* inside an array or nothing, with prose around it that may hold a bracket
ClassifierBodies ==
    {RenderArray(l) : l \in DecisionLists}
    \cup {<<ObjTok(d)>> : d \in DecisionObjects}
    \cup {<<Ch("["), Ch("["), Ch("]"), Ch("]")>>, <<>>}
ClassifierReplies ==
    {Reply(w, b) : w \in Wraps({"p", "[", "]"}), b \in ClassifierBodies}

Group(name, ids) == [name |-> name, summary |-> "One-line benefit", tickets |-> ids]
RefLists(n) == SeqsUpTo(TicketIds \cup {UnknownId}, n)

\* no group, or one group, named or not
GroupLists ==
    {<<>>} \cup {<<Group(nm, ids)>> : nm \in {"Group", Absent}, ids \in RefLists(MaxRefs)}

GroupingObj(hg, gs, hu, us) ==
    [EmptyObj EXCEPT !.hasGroups = hg, !.groups = gs, !.hasUngrouped = hu, !.ungrouped = us]

GroupingObjects ==
    {GroupingObj(TRUE, gs, TRUE, us) : gs \in GroupLists, us \in RefLists(1)}
    \cup {GroupingObj(FALSE, <<>>, TRUE, us) : us \in RefLists(1)}
    \cup {GroupingObj(TRUE, gs, FALSE, <<>>) : gs \in GroupLists}

\* grouping replies: the result object, an array or nothing, with prose around
\* it that may hold a brace
GrouperReplies ==
    {Reply(w, b) : w \in Wraps({"p", "{", "}"}),
                   b \in {<<ObjTok(g)>> : g \in GroupingObjects}
                         \cup {<<Ch("["), Ch("]")>>, <<>>}}

\* ticket lists: the tickets of a set of ids, in ascending order of id
Ascending(S) ==
    [k \in 1..Cardinality(S) |-> CHOOSE x \in S : Cardinality({y \in S : y < x}) = k - 1]
TicketsOf(ids) == [k \in 1..Len(ids) |-> Ticket(ids[k])]
IssueLists == {TicketsOf(Ascending(S)) : S \in SUBSET TicketIds}

\* classifier results the other stages are called with: what the classifier
\* returns for no ticket, and for all the tickets under each reply it decodes
CategorizedInputs ==
    {filter_customer_worthy(<<>>, ServiceDown).value}
    \cup {filter_customer_worthy(TicketsOf(Ascending(TicketIds)),
                                  Svc(TRUE, RenderArray(l))).value :
            l \in {x \in SeqsUpTo(DecisionObjects, NumTickets) :
                      \A k \in 1..Len(x) : x[k].id # 0}}

----------------------------------------------------------------------------
(* The stage functions called directly *)

\* nodes: the comments of the ticket; texts: the ones get_comments kept
NoComments == [nodes |-> <<>>, texts |-> <<>>]

\* customer: a customer name was given; cache, api: what find_customer_meetings
\* met ("none" before); source: where the meetings came from; meetings: how
\* many; context: what extract_customer_context returned; context_calls: the
\* inference calls it made
NoPersonal ==
    [customer |-> FALSE, cache |-> "none", api |-> "none", source |-> "none",
     meetings |-> 0, context |-> "none", context_calls |-> 0]
NotSent == [webhook |-> "none", value |-> FALSE]
NoCalls == [tracker |-> 0, classify |-> 0, group |-> 0, draft |-> 0, slack |-> 0]
NoHist == [ran |-> FALSE, at |-> 0, fetched |-> {}, busy |-> FALSE]
Bump(c, f, called) == IF called THEN [c EXCEPT ![f] = @ + 1] ELSE c

Idle ==
    /\ runNo = 0 /\ now = 0
    /\ tracker = [i \in TicketIds |-> -1]
    /\ checkpoint = [exists |-> FALSE, last_run |-> 0]
    /\ override = [some |-> FALSE, date |-> 0]
    /\ since = 0
    /\ notes = "" /\ prompt = EmptyPrompt
    /\ calls = NoCalls /\ exc = "none" /\ warned = FALSE /\ sent = NotSent
    /\ hist = NoHist
    /\ personal = NoPersonal
    /\ comments = NoComments
    /\ reply = NoReply /\ parsed = NotObserved

InitFn ==
    /\ Idle
    /\ entry = "fn"
    /\ grouped = EmptyGrouped
    /\ \/ pc = "call_filter" /\ issues \in IssueLists
          /\ categorized = EmptyCategorized("none")
       \/ pc = "call_group" /\ issues = <<>>
          /\ categorized \in CategorizedInputs

frame_run ==
    UNCHANGED <<entry, runNo, now, tracker, checkpoint, override, since, hist, sent,
                personal>>

\* the parse the stage made, when it got as far as parsing
ObservedParse(stage, res, svc, p) ==
    IF res.called /\ svc.up THEN Observed(stage, p) ELSE NotObserved

ClassifierServices == {Svc(TRUE, TextOf(r)) : r \in ClassifierReplies} \cup {ServiceDown}
GrouperServices == {Svc(TRUE, TextOf(r)) : r \in GrouperReplies} \cup {ServiceDown}

\* filter_customer_worthy(issues)
CallFilter ==
    /\ pc = "call_filter"
    /\ \E svc \in ClassifierServices :
         LET res == filter_customer_worthy(issues, svc) IN
         /\ categorized' = res.value
         /\ exc' = res.exc
         /\ warned' = res.warned
         /\ calls' = Bump(calls, "classify", res.called)
         /\ parsed' = ObservedParse("decisions", res, svc, parse_decisions(svc.text))
         /\ pc' = IF res.exc = "none" THEN "filter_returned" ELSE "filter_raised"
    /\ UNCHANGED <<issues, grouped, notes, prompt, comments, reply>>
    /\ frame_run

\* group_related_tickets(categorized)
CallGroup ==
    /\ pc = "call_group"
    /\ \E svc \in GrouperServices :
         LET res == group_related_tickets(categorized, svc) IN
         /\ grouped' = res.value
         /\ exc' = res.exc
         /\ calls' = Bump(calls, "group", res.called)
         /\ parsed' = ObservedParse("grouping", res, svc, parse_grouping(svc.text))
         /\ pc' = IF res.exc = "none" THEN "call_draft" ELSE "group_raised"
    /\ UNCHANGED <<issues, categorized, notes, prompt, warned, comments, reply>>
    /\ frame_run

\* draft_release_notes(categorized, grouped)
CallDraft ==
    /\ pc = "call_draft"
    /\ \E up \in BOOLEAN :
         LET res == draft_release_notes(categorized, grouped, up) IN
         /\ notes' = res.value
         /\ prompt' = res.prompt
         /\ exc' = res.exc
         /\ calls' = Bump(calls, "draft", res.called)
         /\ pc' = IF res.exc = "none" THEN "draft_returned" ELSE "draft_raised"
    /\ UNCHANGED <<issues, categorized, grouped, warned, comments, reply, parsed>>
    /\ frame_run

NextFn == CallFilter \/ CallGroup \/ CallDraft

SpecFn == InitFn /\ [][NextFn]_vars

----------------------------------------------------------------------------
(* The two-tier parse applied to a reply alone *)

InitParse ==
    /\ Idle
    /\ entry = "fn" /\ pc = "call_parse"
    /\ issues = <<>>
    /\ categorized = EmptyCategorized("none") /\ grouped = EmptyGrouped

frame_parse ==
    UNCHANGED <<issues, categorized, grouped, notes, prompt, calls, exc, warned,
                comments>>

\* the parse of filter_customer_worthy
ParseDecisions ==
    /\ pc = "call_parse"
    /\ \E r \in ClassifierReplies :
         /\ reply' = r
         /\ parsed' = Observed("decisions", parse_decisions(TextOf(r)))
    /\ pc' = "decisions_parsed"
    /\ frame_parse /\ frame_run

\* the parse of group_related_tickets
ParseGrouping ==
    /\ pc = "call_parse"
    /\ \E r \in GrouperReplies :
         /\ reply' = r
         /\ parsed' = Observed("grouping", parse_grouping(TextOf(r)))
    /\ pc' = "grouping_parsed"
    /\ frame_parse /\ frame_run

NextParse == ParseDecisions \/ ParseGrouping

SpecParse == InitParse /\ [][NextParse]_vars

----------------------------------------------------------------------------
(* get_comments of filter_customer_worthy, called directly *)

\* A comment is the length of its body; 0 is a body that is empty or None.
CommentLists == SeqsUpTo({0, 150, 300, 450}, MaxComments)

\* an over-budget comment passed over, and the loop going on to the next one
comment_step_continueOverBudget(total, body) ==
    IF body = 0 THEN "continue"
    ELSE IF total + body > max_chars THEN "continue"
    ELSE "append"

\* what the loop body does with a truncated body of that length
comment_step(total, body) ==
    IF body = 0 THEN "continue"
    ELSE IF total + body > max_chars THEN "break"
    ELSE "append"

RECURSIVE comments_loop(_, _, _, _)
\* for c in comments[:5], from the k-th on; a kept text is its place in the
\* list and the characters of the body it holds
comments_loop(cs, k, texts, total) ==
    IF k > Len(cs) THEN texts
    ELSE LET body == IF cs[k] > BodyChars THEN BodyChars ELSE cs[k]  \* body[:300]
             step == comment_step(total, body)
         IN  IF step = "continue" THEN comments_loop(cs, k + 1, texts, total)
             ELSE IF step = "break" THEN texts
             ELSE comments_loop(cs, k + 1,
                                Append(texts, [at |-> k, chars |-> body]),
                                total + body)

\* get_comments(issue): the lines under "Comments:", none for ""
get_comments(nodes) ==
    LET n == IF Len(nodes) < MaxCommentsRead THEN Len(nodes) ELSE MaxCommentsRead
    IN  comments_loop(SubSeq(nodes, 1, n), 1, <<>>, 0)

InitComments ==
    /\ Idle
    /\ entry = "fn" /\ pc = "call_get_comments"
    /\ issues = <<>>
    /\ categorized = EmptyCategorized("none") /\ grouped = EmptyGrouped

GetComments ==
    /\ pc = "call_get_comments"
    /\ \E nodes \in CommentLists :
         comments' = [nodes |-> nodes, texts |-> get_comments(nodes)]
    /\ pc' = "comments_returned"
    /\ UNCHANGED <<issues, categorized, grouped, notes, prompt, calls, exc, warned,
                   reply, parsed>>
    /\ frame_run

SpecComments == InitComments /\ [][GetComments]_vars

----------------------------------------------------------------------------
(* Checkpoint store, tracker query, chat delivery *)

\* datetime.now().strftime("%Y-%m-%d")
Today == now \div TicksPerDay

NoDate == [some |-> FALSE, date |-> 0]
SomeDate(d) == [some |-> TRUE, date |-> d]

\* load_last_run(): the stored date, or None when STATE_FILE does not exist
load_last_run == IF checkpoint.exists THEN SomeDate(checkpoint.last_run) ELSE NoDate

\* the stored checkpoint taken ahead of START_DATE
main_since_checkpointFirst(ov, last, today) ==
    IF last.some THEN last.date
    ELSE IF ov.some THEN ov.date
    ELSE today - DefaultWindowDays

\* changelog_bot.main: START_DATE, else the stored checkpoint, else 7 days back
main_since(ov, last, today) ==
    IF ov.some THEN ov.date
    ELSE IF last.some THEN last.date
    ELSE today - DefaultWindowDays

\* customer_release_notes.main: since_date, else the stored checkpoint, else 7
\* days back
crn_since(ov, last, today) ==
    IF ov.some THEN ov.date
    ELSE IF last.some THEN last.date
    ELSE today - DefaultWindowDays

\* the tracker's answer: completed issues with updatedAt >= the start of day d,
\* ordered by updatedAt, the first FetchLimit of them
Matching(d) == {i \in TicketIds : tracker[i] >= 0 /\ tracker[i] >= d * TicksPerDay}
Rank(S, i) ==
    1 + Cardinality({j \in S : tracker[j] < tracker[i]
                                \/ (tracker[j] = tracker[i] /\ j < i)})
OrderByUpdated(S) == [k \in 1..Cardinality(S) |-> CHOOSE i \in S : Rank(S, i) = k]
FirstN(seq, n) == SubSeq(seq, 1, IF Len(seq) < n THEN Len(seq) ELSE n)
Nodes(d) == TicketsOf(FirstN(OrderByUpdated(Matching(d)), FetchLimit))

\* fetch_completed_issues(since_date), by what the transport does: the post
\* raises, the body is no JSON, the body is JSON without the issues, the body
\* is JSON whose "data" is null (None.get), or the query is answered
fetch_completed_issues(d, transport) ==
    IF transport = "unreachable" THEN [exc |-> "ConnectionError", value |-> <<>>]
    ELSE IF transport = "not_json" THEN [exc |-> "JSONDecodeError", value |-> <<>>]
    ELSE IF transport = "error_body" THEN [exc |-> "none", value |-> <<>>]
    ELSE IF transport = "null_data" THEN [exc |-> "AttributeError", value |-> <<>>]
    ELSE [exc |-> "none", value |-> Nodes(d)]

Transports == {"ok", "unreachable", "not_json", "error_body", "null_data"}

\* send_to_slack: what it returns and whether it posted, by webhook outcome
Webhooks == {"unconfigured", "200", "500", "exception"}
\* the try around requests.post left out: a transport exception escapes
send_to_slack_unguarded(webhook) ==
    [posted |-> webhook # "unconfigured", value |-> webhook = "200",
     exc |-> IF webhook = "exception" THEN "ConnectionError" ELSE "none"]

send_to_slack(webhook) ==
    [posted |-> webhook # "unconfigured", value |-> webhook = "200", exc |-> "none"]

\* the report main prints after grouping: ticket.get on a string is an
\* AttributeError
report_error(grp) ==
    IF \E k \in 1..Len(grp.ungrouped_fixes) : grp.ungrouped_fixes[k].kind # "dict"
    THEN "AttributeError" ELSE "none"

IdsOf(seq) == {seq[k].id : k \in 1..Len(seq)}

----------------------------------------------------------------------------
(* The personalizer: find_customer_meetings, extract_customer_context,
   generate_tailored_release_notes *)

\* the local cache file: not there, there with an empty state, there with
\* documents, or there and not the JSON expected
Caches == {"missing", "empty", "present", "corrupt"}

\* FileNotFoundError from open() where the code tests exists() first
load_granola_cache_raises(cache) ==
    IF cache = "present" THEN [exc |-> "none", state |-> "state"]
    ELSE IF cache = "empty" THEN [exc |-> "none", state |-> "empty"]
    ELSE IF cache = "missing" THEN [exc |-> "FileNotFoundError", state |-> "None"]
    ELSE [exc |-> "JSONDecodeError", state |-> "None"]

\* load_granola_cache(): None when the file does not exist, else its state
load_granola_cache(cache) ==
    IF cache = "missing" THEN [exc |-> "none", state |-> "None"]
    ELSE IF cache = "corrupt" THEN [exc |-> "JSONDecodeError", state |-> "None"]
    ELSE IF cache = "empty" THEN [exc |-> "none", state |-> "empty"]
    ELSE [exc |-> "none", state |-> "state"]

\* the API-backed retrieval: the meetings it finds, none when it is unavailable
Apis == {"unavailable", "answers"}
find_customer_meetings_api(api, n) ==
    [exc |-> "none", meetings |-> IF api = "unavailable" THEN 0 ELSE n]

\* no recent meeting with notes for the customer, or one
MeetingCounts == {0, 1}

\* find_customer_meetings: the cache first, the API when `not state`; n is the
\* number of recent meetings with notes the source holds for the customer
find_customer_meetings(cache, api, n) ==
    LET loaded == load_granola_cache(cache) IN
    IF loaded.exc # "none"
    THEN [exc |-> loaded.exc, source |-> "none", meetings |-> 0]
    ELSE IF loaded.state # "state"
    THEN LET found == find_customer_meetings_api(api, n) IN
         [exc |-> found.exc, source |-> "api", meetings |-> found.meetings]
    ELSE [exc |-> "none", source |-> "cache", meetings |-> n]

NoMeetingsMessage == "No recent meetings found for this customer."
ContextSummary == "summary of the meetings"

\* extract_customer_context(meetings, customer_name)
extract_customer_context(meetings, up) ==
    IF meetings = 0
    THEN [exc |-> "none", called |-> FALSE, value |-> NoMeetingsMessage]
    ELSE IF ~up THEN [exc |-> "APIError", called |-> TRUE, value |-> "none"]
    ELSE [exc |-> "none", called |-> TRUE, value |-> ContextSummary]

TailoredText == "tailored release notes"

\* generate_tailored_release_notes: one inference call, its text returned
generate_tailored_release_notes(up) ==
    IF up THEN [exc |-> "none", value |-> TailoredText]
    ELSE [exc |-> "APIError", value |-> ""]

----------------------------------------------------------------------------
(* The replies drawn in whole runs: the service is down, answers in prose
   alone, or answers with a payload about the tickets it was given *)

ProseOnly == Svc(TRUE, <<Ch("p")>>)

\* the first ticket decided as d1, the others as d2
Decide(iss, d1, d2) ==
    [k \in 1..Len(iss) |->
        DecisionObj(iss[k].id, IF k = 1 THEN d1 ELSE d2,
                    IF (IF k = 1 THEN d1 ELSE d2) = "exclude"
                    THEN ReasonBackend ELSE ReasonVisible)]

RunDecisions ==
    {<<"feature", "feature">>, <<"fix", "fix">>, <<"feature", "fix">>,
     <<"exclude", "exclude">>}

RunClassifierServices(iss) ==
    {ServiceDown, ProseOnly}
    \cup {Svc(TRUE, RenderArray(Decide(iss, d[1], d[2]))) : d \in RunDecisions}

RefsOf(tickets) == [k \in 1..Len(tickets) |-> tickets[k].id]

\* every fix left ungrouped, or every feature and fix in one group
RunGrouperServices(cat) ==
    {ServiceDown, ProseOnly,
     Svc(TRUE, <<ObjTok(GroupingObj(TRUE, <<>>, TRUE, RefsOf(cat.fixes)))>>),
     Svc(TRUE, <<ObjTok(GroupingObj(TRUE,
                    <<Group("Group", RefsOf(cat.features \o cat.fixes))>>,
                    TRUE, <<>>))>>)}

----------------------------------------------------------------------------
(* changelog_bot.main and customer_release_notes.main (no customer name) *)

Init ==
    /\ Idle
    /\ pc = "idle" /\ entry = "none"
    /\ issues = <<>>
    /\ categorized = EmptyCategorized("none") /\ grouped = EmptyGrouped

frame_env == UNCHANGED <<checkpoint, tracker, now, hist, runNo>>
frame_harness == UNCHANGED <<comments, reply, personal>>

\* the clock advances between runs
Tick ==
    /\ pc = "idle" /\ now < MaxTick
    /\ now' = now + 1
    /\ hist' = [hist EXCEPT !.busy = FALSE]
    /\ UNCHANGED <<pc, entry, runNo, tracker, checkpoint, override, since, issues,
                   categorized, grouped, notes, prompt, calls, exc, warned, sent,
                   personal, comments, reply, parsed>>

\* a ticket is completed, or a completed ticket is updated; within a tick the
\* tracker's updates come before the runs
TicketUpdated ==
    /\ pc = "idle" /\ ~hist.busy
    /\ \E i \in TicketIds :
         /\ tracker[i] # now
         /\ tracker' = [tracker EXCEPT ![i] = now]
    /\ UNCHANGED <<pc, entry, runNo, now, checkpoint, override, since, issues,
                   categorized, grouped, notes, prompt, calls, exc, warned, sent,
                   hist, personal, comments, reply, parsed>>

Overrides == {NoDate} \cup {SomeDate(d) : d \in 0..(MaxTick \div TicksPerDay)}

StartRun(e, boundary) ==
    /\ pc = "idle" /\ runNo < MaxRuns
    /\ entry' = e
    /\ runNo' = runNo + 1
    /\ since' = boundary
    /\ hist' = [hist EXCEPT !.busy = TRUE]
    /\ pc' = "fetch"
    /\ UNCHANGED <<now, tracker, checkpoint, issues, categorized, grouped, notes,
                   prompt, calls, exc, warned, sent, comments, reply, parsed>>

\* changelog_bot.main up to the boundary
BotStart ==
    \E ov \in Overrides :
        /\ override' = ov
        /\ personal' = NoPersonal
        /\ StartRun("bot", main_since(ov, load_last_run, Today))

\* customer_release_notes.main up to the boundary
CrnStart ==
    \E ov \in Overrides, named \in BOOLEAN :
        /\ override' = ov
        /\ personal' = [NoPersonal EXCEPT !.customer = named]
        /\ StartRun("crn", crn_since(ov, load_last_run, Today))

\* the tracker query and the check for no tickets; the override is not read
\* again
Fetch ==
    /\ pc = "fetch"
    /\ \E transport \in Transports :
         LET res == fetch_completed_issues(since, transport) IN
         /\ issues' = res.value
         /\ exc' = res.exc
         /\ pc' = IF res.exc # "none" THEN "crashed"
                  ELSE IF res.value = <<>> THEN "returned_no_tickets"
                  ELSE "classify"
    /\ calls' = Bump(calls, "tracker", TRUE)
    /\ override' = NoDate
    /\ UNCHANGED <<entry, since, categorized, grouped, notes, prompt, warned, sent,
                   parsed>>
    /\ frame_env /\ frame_harness

\* generate_generic_release_notes: the features and fixes, no excluded ticket
generic_categorized(cat) ==
    [shape |-> "dict", features |-> cat.features, fixes |-> cat.fixes,
     excluded |-> <<>>]

\* what the entry point hands to the grouper and the drafter
StageInput(e, cat) == IF e = "crn" THEN generic_categorized(cat) ELSE cat

\* what a whole run keeps of a parse: the stage and the outcome
Outcome(stage, res, svc, p) == ObservedParse(stage, res, svc, [p EXCEPT !.val = NoVal])

\* the classification and the check for nothing customer-worthy
Classify ==
    /\ pc = "classify"
    /\ \E svc \in RunClassifierServices(issues) :
         LET res == filter_customer_worthy(issues, svc) IN
         /\ categorized' = res.value
         /\ exc' = res.exc
         /\ warned' = res.warned
         /\ calls' = Bump(calls, "classify", res.called)
         /\ parsed' = Outcome("decisions", res, svc, parse_decisions(svc.text))
         /\ pc' = IF res.exc # "none" THEN "crashed"
                  ELSE IF res.value.features = <<>> /\ res.value.fixes = <<>>
                  THEN "returned_not_worthy"
                  ELSE IF personal.customer THEN "find_meetings"
                  ELSE "group"
    /\ UNCHANGED <<entry, override, since, issues, grouped, notes, prompt, sent>>
    /\ frame_env /\ frame_harness

\* the grouping; changelog_bot.main then prints the groups and ungrouped fixes
GroupTickets ==
    /\ pc = "group"
    /\ \E svc \in RunGrouperServices(categorized) :
         LET res == group_related_tickets(StageInput(entry, categorized), svc)
             err == IF res.exc # "none" THEN res.exc
                    ELSE IF entry = "bot" THEN report_error(res.value)
                    ELSE "none"
         IN
         /\ grouped' = res.value
         /\ exc' = err
         /\ calls' = Bump(calls, "group", res.called)
         /\ parsed' = Outcome("grouping", res, svc, parse_grouping(svc.text))
         /\ pc' = IF err # "none" THEN "crashed" ELSE "draft"
    /\ UNCHANGED <<entry, override, since, issues, categorized, notes, prompt,
                   warned, sent>>
    /\ frame_env /\ frame_harness

\* the drafting
Draft ==
    /\ pc = "draft"
    /\ \E up \in BOOLEAN :
         LET res == draft_release_notes(StageInput(entry, categorized), grouped, up) IN
         /\ notes' = res.value
         /\ prompt' = res.prompt
         /\ exc' = res.exc
         /\ calls' = Bump(calls, "draft", res.called)
         /\ pc' = IF res.exc # "none" THEN "crashed" ELSE "slack"
    /\ UNCHANGED <<entry, override, since, issues, categorized, grouped, warned,
                   sent, parsed>>
    /\ frame_env /\ frame_harness

\* customer_release_notes.main with a customer name: the meetings
FindMeetings ==
    /\ pc = "find_meetings"
    /\ \E cache \in Caches, api \in Apis, n \in MeetingCounts :
         LET res == find_customer_meetings(cache, api, n) IN
         /\ personal' = [personal EXCEPT !.cache = cache,
                                         !.api = IF res.source = "api" THEN api ELSE "none",
                                         !.source = res.source,
                                         !.meetings = res.meetings]
         /\ exc' = res.exc
         /\ pc' = IF res.exc # "none" THEN "crashed" ELSE "extract_context"
    /\ UNCHANGED <<entry, override, since, issues, categorized, grouped, notes,
                   prompt, calls, warned, sent, parsed, comments, reply>>
    /\ frame_env

\* the customer context
ExtractContext ==
    /\ pc = "extract_context"
    /\ \E up \in BOOLEAN :
         LET res == extract_customer_context(personal.meetings, up) IN
         /\ personal' = [personal EXCEPT !.context = res.value,
                                         !.context_calls = IF res.called THEN 1 ELSE 0]
         /\ exc' = res.exc
         /\ pc' = IF res.exc # "none" THEN "crashed" ELSE "tailor"
    /\ UNCHANGED <<entry, override, since, issues, categorized, grouped, notes,
                   prompt, calls, warned, sent, parsed, comments, reply>>
    /\ frame_env

\* the tailored notes
Tailor ==
    /\ pc = "tailor"
    /\ \E up \in BOOLEAN :
         LET res == generate_tailored_release_notes(up) IN
         /\ notes' = res.value
         /\ exc' = res.exc
         /\ pc' = IF res.exc # "none" THEN "crashed" ELSE "slack"
    /\ UNCHANGED <<entry, override, since, issues, categorized, grouped, prompt,
                   calls, warned, sent, parsed>>
    /\ frame_env /\ frame_harness

\* the post tried once more when the webhook did not answer 200
BotSlack_retryOnFailure ==
    /\ pc = "slack" /\ entry = "bot"
    /\ \E webhook \in Webhooks :
         LET res == send_to_slack(webhook) IN
         /\ sent' = [webhook |-> webhook, value |-> res.value]
         /\ calls' = Bump(calls, "slack", res.posted)
         /\ exc' = res.exc
         /\ pc' = IF res.posted /\ ~res.value /\ calls.slack = 0 THEN "slack"
                  ELSE "save"
    /\ UNCHANGED <<entry, override, since, issues, categorized, grouped, notes,
                   prompt, warned, parsed>>
    /\ frame_env /\ frame_harness

\* changelog_bot.main: send_to_slack(release_notes, since, today)
BotSlack ==
    /\ pc = "slack" /\ entry = "bot"
    /\ \E webhook \in Webhooks :
         LET res == send_to_slack(webhook) IN
         /\ sent' = [webhook |-> webhook, value |-> res.value]
         /\ calls' = Bump(calls, "slack", res.posted)
         /\ exc' = res.exc
         /\ pc' = IF res.exc # "none" THEN "crashed" ELSE "save"
    /\ UNCHANGED <<entry, override, since, issues, categorized, grouped, notes,
                   prompt, warned, parsed>>
    /\ frame_env /\ frame_harness

\* the checkpoint saved once the notes are drafted, ahead of the delivery
BotSave_beforeDelivery ==
    /\ pc = "slack" /\ entry = "bot"
    /\ checkpoint' = [exists |-> TRUE, last_run |-> Today]
    /\ hist' = [hist EXCEPT !.ran = TRUE, !.at = now, !.fetched = IdsOf(issues)]
    /\ exc' = "none"
    /\ pc' = "done"
    /\ UNCHANGED <<entry, runNo, now, tracker, override, since, issues, categorized,
                   grouped, notes, prompt, calls, warned, sent, personal, comments, reply,
                   parsed>>

\* changelog_bot.main: save_last_run(today); the write may fail
BotSave ==
    /\ pc = "save"
    /\ \E writable \in BOOLEAN :
         IF writable
         THEN /\ checkpoint' = [exists |-> TRUE, last_run |-> Today]
              /\ hist' = [hist EXCEPT !.ran = TRUE, !.at = now,
                                     !.fetched = IdsOf(issues)]
              /\ exc' = "none"
              /\ pc' = "done"
         ELSE /\ exc' = "OSError"
              /\ pc' = "crashed"
              /\ UNCHANGED <<checkpoint, hist>>
    /\ UNCHANGED <<entry, runNo, now, tracker, override, since, issues, categorized,
                   grouped, notes, prompt, calls, warned, sent, personal, comments, reply,
                   parsed>>

\* customer_release_notes.main: the post when send_to_slack is set, then return
CrnSlack ==
    /\ pc = "slack" /\ entry = "crn"
    /\ \E flag \in BOOLEAN, webhook \in Webhooks :
         LET res == send_to_slack(webhook) IN
         /\ sent' = IF flag THEN [webhook |-> webhook, value |-> res.value] ELSE NotSent
         /\ calls' = Bump(calls, "slack", flag /\ res.posted)
    /\ pc' = "crn_returned"
    /\ UNCHANGED <<entry, override, since, issues, categorized, grouped, notes,
                   prompt, exc, warned, parsed>>
    /\ frame_env /\ frame_harness

Ended == pc \in {"done", "crashed", "returned_no_tickets", "returned_not_worthy",
                 "crn_returned"}

\* the process exits; the checkpoint file is what remains of the run
Exit ==
    /\ Ended
    /\ pc' = "idle" /\ entry' = "none"
    /\ override' = NoDate /\ since' = 0
    /\ issues' = <<>>
    /\ categorized' = EmptyCategorized("none") /\ grouped' = EmptyGrouped
    /\ notes' = "" /\ prompt' = EmptyPrompt
    /\ calls' = NoCalls /\ exc' = "none" /\ warned' = FALSE /\ sent' = NotSent
    /\ parsed' = NotObserved
    /\ personal' = NoPersonal
    /\ frame_env /\ UNCHANGED <<comments, reply>>

Next ==
    \/ Tick \/ TicketUpdated
    \/ BotStart \/ CrnStart
    \/ Fetch \/ Classify \/ GroupTickets \/ Draft
    \/ FindMeetings \/ ExtractContext \/ Tailor
    \/ BotSlack \/ BotSave \/ CrnSlack
    \/ Exit

Spec == Init /\ [][Next]_vars

----------------------------------------------------------------------------
(* Claims about the classifier *)

Occurrences(seq, id) == Cardinality({k \in 1..Len(seq) : seq[k].id = id})

InPartitions(id) ==
    Occurrences(categorized.features, id) + Occurrences(categorized.fixes, id)
    + Occurrences(categorized.excluded, id)

PartitionComplete ==
    /\ \A k \in 1..Len(issues) : InPartitions(issues[k].id) = 1
    /\ Len(categorized.features) + Len(categorized.fixes) + Len(categorized.excluded)
       = Len(issues)

\* C1 as stated: whatever the reply, once filter_customer_worthy has returned
\* every input ticket is in exactly one of features, fixes and excluded, and the
\* three together count as many tickets as the input.
C1_PartitionAnyReply == pc = "filter_returned" => PartitionComplete

\* C1 amended: the same, for a reply that one of the two parse tiers decodes.
C1_PartitionParsedReply == (pc = "filter_returned" /\ parsed.ok) => PartitionComplete

C1_Witness ==
    /\ pc = "filter_returned" /\ parsed.ok /\ parsed.tier = 2
    /\ Len(issues) = NumTickets
    /\ categorized.features # <<>> /\ categorized.excluded # <<>>

\* the ids the decoded decision list names
DecidedIds ==
    IF parsed.val.kind = "list"
    THEN {parsed.val.items[k].obj.id : k \in 1..Len(parsed.val.items)}
    ELSE {}

\* C2: when the reply parses to a decision list, every input ticket whose id the
\* list does not name is in excluded, in neither features nor fixes, and carries
\* a reason that is not the empty string.
C2_DefaultDecision ==
    (pc = "filter_returned" /\ parsed.ok) =>
        \A k \in 1..Len(issues) :
            issues[k].id \notin DecidedIds =>
                /\ Occurrences(categorized.features, issues[k].id) = 0
                /\ Occurrences(categorized.fixes, issues[k].id) = 0
                /\ \E j \in 1..Len(categorized.excluded) :
                      /\ categorized.excluded[j].id = issues[k].id
                      /\ categorized.excluded[j].reason \notin {"", Absent}

C2_Witness ==
    /\ pc = "filter_returned" /\ parsed.ok
    /\ parsed.val.kind = "list" /\ parsed.val.items # <<>>
    /\ \E k \in 1..Len(issues) : issues[k].id \notin DecidedIds
    /\ \E k \in 1..Len(issues) : issues[k].id \in DecidedIds

\* C6: on empty input no stage calls the service: the classifier returns the
\* shape of a normal classification with its three lists empty, the grouper no
\* group and no ungrouped fix, the drafter the empty string.
C6_EmptyShortCircuit ==
    /\ (pc = "filter_returned" /\ issues = <<>>) =>
           calls.classify = 0 /\ categorized = EmptyCategorized("dict")
    /\ (pc = "call_draft" /\ categorized.features = <<>> /\ categorized.fixes = <<>>) =>
           calls.group = 0 /\ grouped = EmptyGrouped
    /\ (pc = "draft_returned" /\ categorized.features = <<>> /\ categorized.fixes = <<>>) =>
           calls.draft = 0 /\ notes = ""

----------------------------------------------------------------------------
(* Claims about the parse *)

\* C4: a reply that is a JSON array of decisions with prose around it, prose
\* with brackets of its own included, parses to exactly that array.
C4_ParseFallback ==
    pc = "decisions_parsed" =>
        \A l \in DecisionLists :
            reply.body = RenderArray(l) =>
                parsed.ok /\ parsed.val = ArrayVal(l)

----------------------------------------------------------------------------
(* Claims about the grouper *)

GroupReturned == pc \in {"call_draft", "draft_returned", "draft_raised"}

\* the decoded reply is a grouping result: an object whose groups have a name
GroupingResult ==
    /\ parsed.ok /\ parsed.val.kind = "dict"
    /\ \A k \in 1..Len(parsed.val.obj.groups) : parsed.val.obj.groups[k].name # Absent

\* entry e stands for id: the candidate ticket with that id, or a placeholder
Resolved(e, id) ==
    LET cands == all_tickets(categorized) IN
    \/ \E k \in 1..Len(cands) : cands[k].id = id /\ e = cands[k]
    \/ /\ \A k \in 1..Len(cands) : cands[k].id # id
       /\ e = [kind |-> "dict", id |-> id, title |-> "Unknown", reason |-> Absent]

ResolvedList(es, ids) ==
    /\ Len(es) = Len(ids)
    /\ \A k \in 1..Len(ids) : Resolved(es[k], ids[k])

\* C5: for a parsed grouping result, every id of a group and of ungrouped_fixes
\* comes back as the candidate ticket with that id or as a placeholder, the
\* lists keep their length and order, and no exception escapes.
C5_GroupingClosure ==
    ((GroupReturned \/ pc = "group_raised") /\ GroupingResult) =>
        /\ pc # "group_raised"
        /\ Len(grouped.groups) = Len(parsed.val.obj.groups)
        /\ \A k \in 1..Len(grouped.groups) :
              ResolvedList(grouped.groups[k].tickets, parsed.val.obj.groups[k].tickets)
        /\ ResolvedList(grouped.ungrouped_fixes, parsed.val.obj.ungrouped)

C5_Witness ==
    /\ pc = "call_draft" /\ GroupingResult
    /\ \E k \in 1..Len(grouped.groups) :
          /\ \E j \in 1..Len(grouped.groups[k].tickets) :
                grouped.groups[k].tickets[j].title = "Unknown"
          /\ \E j \in 1..Len(grouped.groups[k].tickets) :
                grouped.groups[k].tickets[j].title = "Ticket"
    /\ grouped.ungrouped_fixes # <<>>

----------------------------------------------------------------------------
(* Claims about whole runs *)

\* C3: the boundary a run queries with is the operator's override when one is
\* supplied, whatever the stored checkpoint; otherwise the stored checkpoint
\* when there is one; otherwise the date 7 days before the run.  For both
\* entry points.
C3_CheckpointPrecedence ==
    pc = "fetch" =>
        /\ entry \in {"bot", "crn"}
        /\ override.some => since = override.date
        /\ (~override.some /\ checkpoint.exists) => since = checkpoint.last_run
        /\ (~override.some /\ ~checkpoint.exists) => since = Today - DefaultWindowDays

C3_Witness ==
    /\ pc = "fetch" /\ entry = "bot"
    /\ override.some /\ checkpoint.exists
    /\ override.date # checkpoint.last_run
    /\ since = override.date

Fetched == IdsOf(issues)

\* C7: when a run of changelog_bot.main completes whose boundary is the
\* checkpoint the previous completed run saved, no ticket the previous run
\* fetched is fetched again unless it was updated after that run, and every
\* ticket completed or updated after that run is fetched.
C7_NonDuplicatingRuns ==
    [][(pc = "save" /\ pc' = "done" /\ hist.ran /\ since = checkpoint.last_run) =>
          /\ \A i \in Fetched \cap hist.fetched : tracker[i] > hist.at
          /\ \A i \in TicketIds : tracker[i] > hist.at => i \in Fetched]_vars

\* C9: when neither tier parses the grouping reply and there is a fix, the
\* grouper returns no group and every fix ungrouped, and the run of
\* changelog_bot.main goes on through the report, the draft, the delivery and
\* the save with no exception raised on the value returned.
C9_GrouperFallbackConsumable ==
    (entry = "bot" /\ parsed.of = "grouping" /\ ~parsed.ok /\ categorized.fixes # <<>>) =>
        /\ grouped.groups = <<>>
        /\ IdsOf(grouped.ungrouped_fixes) = IdsOf(categorized.fixes)
        /\ exc \notin {"AttributeError", "TypeError", "KeyError"}

DecisionsUnparsed == parsed.of = "decisions" /\ ~parsed.ok

\* C10: when neither tier parses the classification reply, the classifier
\* returns empty features, fixes and excluded with a warning and raises
\* nothing, and the run ends there as a run with nothing customer-worthy: no
\* grouping call, no drafting call.
C10_ClassifierFailureRecoverable ==
    DecisionsUnparsed =>
        /\ categorized = EmptyCategorized("dict")
        /\ warned
        /\ exc = "none"
        /\ pc = "returned_not_worthy"
        /\ calls.group = 0 /\ calls.draft = 0

C10_Witness ==
    /\ DecisionsUnparsed
    /\ issues # <<>>
    /\ pc = "returned_not_worthy" /\ calls.classify = 1

----------------------------------------------------------------------------
(* Claims about replies of the wrong shape *)

\* C11: whatever the text of the reply, text that decodes as JSON of the wrong
\* shape included, the classifier and the grouper return and raise nothing:
\* an exception escapes them only when no reply was received.
C11_ParseErrorsNeverRaise ==
    pc \in {"filter_raised", "group_raised"} => parsed.of = "none"

----------------------------------------------------------------------------
(* Claims about failures of the services *)

\* C12: a failure of the tracker query or of the classification, grouping or
\* drafting call never ends the run with an exception: the stage gives its
\* empty result and the run terminates normally.  A failed call raises
\* ConnectionError (requests.post on an unreachable tracker), JSONDecodeError
\* (json() on an error page) or APIError (the inference client).
C12_TransportErrorsNeverFatal ==
    pc = "crashed" => exc \notin {"ConnectionError", "JSONDecodeError", "APIError"}

----------------------------------------------------------------------------
(* Claims about the checkpoint *)

\* C13: when the checkpoint cannot be written, save_last_run returns without
\* raising and the run terminates normally; and load_last_run gives "absent",
\* not an error, when there is no checkpoint.
C13_SaveFailureRecoverable ==
    /\ exc # "OSError"
    /\ ~checkpoint.exists => load_last_run = NoDate

\* C14: in a run of changelog_bot.main that reaches delivery, whatever the
\* webhook does (200, another status, a transport exception, none configured)
\* send_to_slack raises nothing and returns true only on 200, the run goes on
\* to the save, and the save, unless the write itself fails, leaves the
\* checkpoint at the date of the run.
C14_WebhookNeverBlocksSave ==
    [][/\ (pc = "slack" /\ entry = "bot") =>
              /\ pc' = "save" /\ exc' = "none"
              /\ sent'.value <=> sent'.webhook = "200"
       /\ (pc = "save" /\ pc' # "save") =>
              \/ pc' = "done" /\ checkpoint' = [exists |-> TRUE, last_run |-> Today]
              \/ pc' = "crashed" /\ exc' = "OSError"]_vars

C14_Witness ==
    /\ pc = "done" /\ entry = "bot"
    /\ sent.webhook = "exception" /\ ~sent.value
    /\ checkpoint = [exists |-> TRUE, last_run |-> Today]

\* C15: every run that terminates normally, a run that fetches no ticket, a
\* run with no feature and no fix and a run of customer_release_notes.main
\* included, has written the checkpoint with the date of the run.
C15_CheckpointWrittenEveryRun ==
    pc \in {"done", "returned_no_tickets", "returned_not_worthy", "crn_returned"} =>
        checkpoint = [exists |-> TRUE, last_run |-> Today]

----------------------------------------------------------------------------
(* Claims about what the draft is built from *)

RescuedIds ==
    {categorized.excluded[k].id :
        k \in {j \in 1..Len(categorized.excluded) :
                  keyword_hit(categorized.excluded[j].reason)}}

\* the entries of a list that are rescued tickets (not placeholders)
HasRescued(tickets) ==
    \E k \in 1..Len(tickets) :
        /\ tickets[k].kind = "dict" /\ tickets[k].title # "Unknown"
        /\ tickets[k].id \in RescuedIds

\* C16: an excluded ticket rescued into the candidates of the grouper is only
\* ever a member of a group: whatever the reply, it is not in the returned
\* ungrouped_fixes, and the drafter renders it neither as a fix nor as a
\* feature of its own.
C16_RescuedNeverPromoted ==
    /\ GroupReturned => ~HasRescued(grouped.ungrouped_fixes)
    /\ pc = "draft_returned" =>
           ~HasRescued(prompt.fixes) /\ ~HasRescued(prompt.features)

----------------------------------------------------------------------------
(* Claims about the personalizer *)

\* C17: when the local cache is not there, find_customer_meetings goes to the
\* API-backed retrieval; when that is unavailable too it returns no meeting
\* and raises nothing, extract_customer_context makes no inference call and
\* returns its fixed message, and the run goes on to the tailored notes.
C17_PersonalizerFallbackChain ==
    (personal.customer /\ personal.cache = "missing") =>
        /\ personal.source = "api"
        /\ personal.api = "unavailable" =>
              /\ personal.meetings = 0
              /\ personal.context \in {"none", NoMeetingsMessage}
              /\ personal.context_calls = 0
              /\ \/ pc = "extract_context" /\ personal.context = "none"
                 \/ /\ personal.context = NoMeetingsMessage
                    /\ \/ pc \in {"tailor", "slack", "crn_returned"}
                       \/ pc = "crashed" /\ exc = "APIError" /\ notes = ""

C17_Witness ==
    /\ personal.customer /\ personal.cache = "missing"
    /\ personal.api = "unavailable"
    /\ personal.context = NoMeetingsMessage
    /\ pc = "crn_returned" /\ notes = TailoredText

----------------------------------------------------------------------------
(* Claims about the drafting prompt *)

PromptBuilt == pc = "draft_returned" /\ calls.draft = 1

GroupMemberIds(groups) ==
    UNION {{groups[k].tickets[j].id : j \in 1..Len(groups[k].tickets)} :
              k \in 1..Len(groups)}

\* the id is in a group of the grouping result or in its ungrouped_fixes
Referenced(id) ==
    \/ id \in GroupMemberIds(grouped.groups)
    \/ \E k \in 1..Len(grouped.ungrouped_fixes) : grouped.ungrouped_fixes[k].id = id

\* the ticket with the id is rendered somewhere in the prompt
InPrompt(id) ==
    \/ id \in GroupMemberIds(prompt.groups)
    \/ \E k \in 1..Len(prompt.features) : prompt.features[k].id = id
    \/ \E k \in 1..Len(prompt.fixes) : prompt.fixes[k].id = id

\* C18 as stated: a feature or fix that no group and no ungrouped_fixes entry
\* refers to is not in the drafting prompt, whatever the grouping result.
C18_UnreferencedDropped ==
    PromptBuilt =>
        \A k \in 1..Len(categorized.features \o categorized.fixes) :
            LET t == (categorized.features \o categorized.fixes)[k] IN
            ~Referenced(t.id) => ~InPrompt(t.id)

\* C18: a feature that no group and no ungrouped_fixes entry refers to is not
\* in the drafting prompt when the grouping result has a group; a fix that
\* none refers to is not in it when ungrouped_fixes is not empty.  (With no
\* group every feature is rendered; with no ungrouped fix, every fix.)
C18_UnreferencedDroppedWhenSectionFilled ==
    PromptBuilt =>
        /\ grouped.groups # <<>> =>
              \A k \in 1..Len(categorized.features) :
                  ~Referenced(categorized.features[k].id) =>
                      ~InPrompt(categorized.features[k].id)
        /\ grouped.ungrouped_fixes # <<>> =>
              \A k \in 1..Len(categorized.fixes) :
                  ~Referenced(categorized.fixes[k].id) =>
                      ~InPrompt(categorized.fixes[k].id)

C18_Witness ==
    /\ PromptBuilt
    /\ grouped.ungrouped_fixes # <<>>
    /\ \E k \in 1..Len(categorized.fixes) :
          ~Referenced(categorized.fixes[k].id) /\ ~InPrompt(categorized.fixes[k].id)

----------------------------------------------------------------------------
(* Claims about decisions for tickets that were not sent *)

\* the reply decoded to a list of decisions that all carry an id
DecisionList ==
    /\ parsed.of = "decisions" /\ parsed.ok /\ parsed.val.kind = "list"
    /\ \A k \in 1..Len(parsed.val.items) :
          parsed.val.items[k].kind = "dict" /\ parsed.val.items[k].obj.id # 0

InputIds == {issues[k].id : k \in 1..Len(issues)}

\* the decoded list without the decisions for ids that are not input tickets
WithoutExtraneous ==
    ListVal(SelectSeq(parsed.val.items, LAMBDA d : d.obj.id \in InputIds))

\* every entry is an input ticket, with a reason added
InputTicketsOnly(part) ==
    \A k \in 1..Len(part) :
        \E j \in 1..Len(issues) :
            /\ part[k].reason # Absent
            /\ [part[k] EXCEPT !.reason = Absent] = issues[j]

\* C19: decisions for ids that are no input ticket raise nothing and add
\* nothing: every entry of features, fixes and excluded is an input ticket
\* with a reason, and the partitions are the ones the same decisions give
\* without the extraneous ones.
C19_UnknownIdsIgnored ==
    (pc \in {"filter_returned", "filter_raised"} /\ DecisionList) =>
        /\ pc = "filter_returned" /\ exc = "none"
        /\ InputTicketsOnly(categorized.features)
        /\ InputTicketsOnly(categorized.fixes)
        /\ InputTicketsOnly(categorized.excluded)
        /\ categorized.features = partition_of(issues, WithoutExtraneous, "features")
        /\ categorized.fixes = partition_of(issues, WithoutExtraneous, "fixes")
        /\ categorized.excluded = partition_of(issues, WithoutExtraneous, "excluded")

C19_Witness ==
    /\ pc = "filter_returned" /\ DecisionList
    /\ \E k \in 1..Len(parsed.val.items) :
          /\ parsed.val.items[k].obj.id \notin InputIds
          /\ parsed.val.items[k].obj.decision = "feature"
    /\ categorized.excluded # <<>>

----------------------------------------------------------------------------
(* Claims about the order of the stages *)

Delivered == sent.webhook # "none"

\* C20: in a run of changelog_bot.main the stages happen in the order boundary,
\* tracker query, classification, grouping, drafting, delivery, save: a stage
\* acts only when every earlier one has acted in this run and no later one
\* has, and the checkpoint is written only after the delivery was attempted.
C20_StrictStageOrdering ==
    [][entry = "bot" =>
          /\ calls'.tracker = calls.tracker + 1 =>
                 pc = "fetch" /\ calls = NoCalls /\ ~Delivered
          /\ calls'.classify = calls.classify + 1 =>
                 /\ calls.tracker = 1 /\ calls.classify = 0
                 /\ calls.group = 0 /\ calls.draft = 0 /\ ~Delivered
          /\ calls'.group = calls.group + 1 =>
                 /\ calls.tracker = 1 /\ calls.classify = 1 /\ calls.group = 0
                 /\ calls.draft = 0 /\ ~Delivered
          /\ calls'.draft = calls.draft + 1 =>
                 /\ calls.tracker = 1 /\ calls.classify = 1 /\ calls.group = 1
                 /\ calls.draft = 0 /\ ~Delivered
          /\ (sent' # sent /\ sent' # NotSent) =>
                 /\ calls.tracker = 1 /\ calls.classify = 1 /\ calls.group = 1
                 /\ calls.draft = 1 /\ ~Delivered /\ pc = "slack"
          /\ (checkpoint' # checkpoint \/ pc' = "done") =>
                 /\ calls.tracker = 1 /\ calls.classify = 1 /\ calls.group = 1
                 /\ calls.draft = 1 /\ Delivered /\ pc = "save"]_vars

C20_Witness ==
    /\ pc = "done" /\ entry = "bot"
    /\ calls.tracker = 1 /\ calls.classify = 1 /\ calls.group = 1 /\ calls.draft = 1
    /\ sent.webhook = "500"
    /\ checkpoint = [exists |-> TRUE, last_run |-> Today]

----------------------------------------------------------------------------
(* Claims about the number of calls *)

\* C21: in a run of changelog_bot.main, whatever the tickets, the parses and
\* the delivery, there is at most one tracker query, at most one inference
\* call each for the classification, the grouping and the drafting, and at
\* most one webhook post.
C21_OneCallPerStage ==
    entry = "bot" =>
        /\ calls.tracker <= 1
        /\ calls.classify <= 1 /\ calls.group <= 1 /\ calls.draft <= 1
        /\ calls.classify + calls.group + calls.draft <= 3
        /\ calls.slack <= 1

C21_Witness ==
    /\ entry = "bot" /\ pc = "save"
    /\ calls.tracker = 1 /\ calls.classify = 1 /\ calls.group = 1 /\ calls.draft = 1
    /\ sent.webhook = "500" /\ calls.slack = 1

----------------------------------------------------------------------------
(* Claims about the comments shown to the classifier *)

RECURSIVE SumChars(_)
SumChars(lens) == IF lens = <<>> THEN 0 ELSE Head(lens) + SumChars(Tail(lens))

\* the body of the k-th comment, cut to 300 characters
CutBody(k) == IF comments.nodes[k] > 300 THEN 300 ELSE comments.nodes[k]

\* the combined length of the kept bodies
KeptChars == SumChars([i \in DOMAIN comments.texts |-> comments.texts[i].chars])

\* the comments among the first five that would take the budget past 800:
\* non-empty, and over it together with the cut bodies of the ones before
OverBudget ==
    {k \in DOMAIN comments.nodes :
        /\ k <= 5 /\ CutBody(k) > 0
        /\ SumChars([j \in 1..k |-> CutBody(j)]) > 800}

\* C22: the comments kept for a ticket come from its first five comments, each
\* body cut to at most 300 characters and empty bodies skipped; the kept bodies
\* add up to at most 800 characters, they are in the original order, and they
\* are the non-empty ones before the first one that would exceed the budget:
\* no later comment is kept after that one.
C22_CommentBudget ==
    pc = "comments_returned" =>
        /\ \A i \in DOMAIN comments.texts :
              /\ comments.texts[i].at \in DOMAIN comments.nodes
              /\ comments.texts[i].at <= 5
              /\ comments.texts[i].chars = CutBody(comments.texts[i].at)
              /\ comments.texts[i].chars \in 1..300
        /\ KeptChars <= 800
        /\ \A i, j \in DOMAIN comments.texts :
              i < j => comments.texts[i].at < comments.texts[j].at
        /\ {comments.texts[i].at : i \in DOMAIN comments.texts}
             = {k \in DOMAIN comments.nodes :
                   /\ k <= 5 /\ CutBody(k) > 0
                   /\ \A o \in OverBudget : k < o}

\* six comments: a long one kept cut, an empty one skipped before a kept one,
\* one that stops the loop, and a later one that would still have fit
C22_Witness ==
    /\ pc = "comments_returned"
    /\ Len(comments.nodes) > 5 /\ comments.nodes[6] > 0
    /\ \E i \in DOMAIN comments.texts :
          comments.nodes[comments.texts[i].at] > comments.texts[i].chars
    /\ \E i \in DOMAIN comments.texts : \E k \in 1..comments.texts[i].at :
          comments.nodes[k] = 0
    /\ \E o \in OverBudget : \E k \in DOMAIN comments.nodes :
          /\ o < k /\ k <= 5 /\ CutBody(k) > 0
          /\ KeptChars + CutBody(k) <= 800

----------------------------------------------------------------------------
(* Claims about fixes that were grouped *)

====
